---- MODULE Spec2Model ----
(***************************************************************************)
(* A model of the otio-rs binding crate: the Rust handles of src/src/lib.rs *)
(* and src/src/macros.rs over the composition engine they call through the *)
(* FFI.  The engine (shim/otio_shim.cpp and the library behind it) is not   *)
(* among the source files; its operations, named otio_..., are modelled     *)
(* from the specification's sections 3 and 4.                               *)
(***************************************************************************)
EXTENDS Integers, Sequences, FiniteSets, TLC

\* ------------------------------------------------------------------ bounds
MaxTracks == 1
MaxStacks == 1
MaxLeaves == 2
MaxDur == 2
MaxViews == 1
MaxIndex == 2
MaxWrap == 1
MaxItems == 4
MaxTime == 3
MaxSrc == 1
MaxDelta == 1
MaxValue == 1

\* The null pointer.
NoObj == 0

\* Object ids by the type of the Rust value first holding them: a timeline and
\* its root stack, tracks, stacks, and the leaves (clips, gaps, transitions).
TimelineId == NoObj + 1
RootId == TimelineId + 1
TrackIds == (RootId + 1)..(RootId + MaxTracks)
StackIds == (RootId + MaxTracks + 1)..(RootId + MaxTracks + MaxStacks)
LeafIds == (RootId + MaxTracks + MaxStacks + 1)..(RootId + MaxTracks + MaxStacks + MaxLeaves)
ObjIds == TimelineId..(RootId + MaxTracks + MaxStacks + MaxLeaves)
Durs == 1..MaxDur
\* The rate every time of the model is expressed at (the tests' 24 fps).
Rates == {24}
TheRate == CHOOSE r \in Rates : TRUE

\* ------------------------------------------------------------ time values
RationalTime_new(value, rate) == [value |-> value, rate |-> rate]

TimeRange_new(start_time, duration) ==
  [start_time |-> start_time, duration |-> duration]

\* The FFI structs have the same fields as the Rust ones.
FfiRange(startv, durv) ==
  [start_time |-> [value |-> startv, rate |-> TheRate],
   duration |-> [value |-> durv, rate |-> TheRate]]

time_range_from_ffi_swapped(ffi_range) ==
  TimeRange_new(
    RationalTime_new(ffi_range.duration.value, ffi_range.duration.rate),
    RationalTime_new(ffi_range.start_time.value, ffi_range.start_time.rate))

time_range_from_ffi(ffi_range) ==
  TimeRange_new(
    RationalTime_new(ffi_range.start_time.value, ffi_range.start_time.rate),
    RationalTime_new(ffi_range.duration.value, ffi_range.duration.rate))

\* ------------------------------------------------------- usize and i32
\* A usize index is the pair (hi, lo) standing for hi * 2^16 + lo, lo < 2^16,
\* so that 64-bit values stay within TLC's 32-bit integers.
Two15 == 2^15
Two16 == 2^16

Usize(n) == [hi |-> 0, lo |-> n]
UsizeLt(a, b) == a.hi < b.hi \/ (a.hi = b.hi /\ a.lo < b.lo)
UsizeLe(a, b) == a = b \/ UsizeLt(a, b)

\* `index as i32`: the low 32 bits, read as a two's complement number.
as_i32(u) ==
  LET h == u.hi % Two16
  IN (IF h >= Two15 THEN h - Two16 ELSE h) * Two16 + u.lo

\* `count.max(0) as usize`
count_as_usize(count) == Usize(IF count > 0 THEN count ELSE 0)

\* ------------------------------------------------------------ sequences
InsertAt(s, i, e) == SubSeq(s, 1, i) \o <<e>> \o SubSeq(s, i + 1, Len(s))
RemoveAt(s, i) == SubSeq(s, 1, i - 1) \o SubSeq(s, i + 1, Len(s))
Range(s) == {s[i] : i \in 1..Len(s)}
Max2(a, b) == IF a >= b THEN a ELSE b

\* -------------------------------------------------------------- the heap
\* The engine's objects: H.kind, H.st ("unalloc", "live", "freed"), H.kids (a
\* composition's children, or a timeline's root stack), H.parent and H.dur (a
\* clip's source_range duration, a gap's duration).
\*   hnd[o]  the Rust value holding o's pointer: "none", "owned" (frees on
\*           drop, where the type has a Drop) or "unowned" (a Track with
\*           owned: false)
\*   views   the live borrowed views, [ptr, src]: the object and the handle
\*           the view borrows
\*   last    the call whose Result the caller is looking at
\*   ub      a destroyed object has been used
\*   trk     the track the edit calls work on, as a sequence of items
\*   clp     the Clip value the edit calls are given (NoClip: none)
VARIABLES heap, hnd, views, last, ub, trk, clp, attr

vars == <<heap, hnd, views, last, ub, trk, clp, attr>>

EmptyHeap ==
  [kind |-> [o \in ObjIds |-> "None"],
   st |-> [o \in ObjIds |-> "unalloc"],
   kids |-> [o \in ObjIds |-> <<>>],
   parent |-> [o \in ObjIds |-> NoObj],
   dur |-> [o \in ObjIds |-> 0]]

Unalloc(H, ids) == {o \in ids : H.st[o] = "unalloc"}
NextFree(H, ids) == CHOOSE o \in Unalloc(H, ids) : \A p \in Unalloc(H, ids) : o <= p

Create(H, o, k, d) ==
  [H EXCEPT !.kind[o] = k, !.st[o] = "live", !.dur[o] = d]

RECURSIVE Subtree(_, _)
Subtree(H, o) ==
  {o} \cup UNION {Subtree(H, H.kids[o][i]) : i \in 1..Len(H.kids[o])}

\* Destroying an object destroys, recursively, all the children it owns.
Destroy(H, o) ==
  LET dead == Subtree(H, o)
  IN [H EXCEPT
        !.st = [x \in ObjIds |-> IF x \in dead THEN "freed" ELSE @[x]],
        !.kids = [x \in ObjIds |-> IF x \in dead THEN <<>> ELSE @[x]],
        !.parent = [x \in ObjIds |-> IF x \in dead THEN NoObj ELSE @[x]],
        !.dur = [x \in ObjIds |-> IF x \in dead THEN 0 ELSE @[x]]]

IsComposition(H, o) == H.kind[o] \in {"Track", "Stack"}

\* The duration a child occupies in its parent: a clip's or gap's own duration,
\* nothing for a transition (a zero-width marker), the sum of a track's children
\* and the maximum of a stack's.
RECURSIVE ChildDuration(_, _)
RECURSIVE SumDur(_, _, _)
RECURSIVE MaxDurOf(_, _, _)
SumDur(H, s, n) ==
  IF n = 0 THEN 0 ELSE SumDur(H, s, n - 1) + ChildDuration(H, s[n])
MaxDurOf(H, s, n) ==
  IF n = 0 THEN 0 ELSE Max2(MaxDurOf(H, s, n - 1), ChildDuration(H, s[n]))
ChildDuration(H, o) ==
  CASE H.kind[o] \in {"Clip", "Gap"} -> H.dur[o]
    [] H.kind[o] = "Track" -> SumDur(H, H.kids[o], Len(H.kids[o]))
    [] H.kind[o] = "Stack" -> MaxDurOf(H, H.kids[o], Len(H.kids[o]))
    [] OTHER -> 0

\* ------------------------------------------------- the engine's operations
otio_children_count(H, c) == Len(H.kids[c])

otio_append_noparentcheck(H, c, child) ==
  [rc |-> 0,
   H |-> [H EXCEPT !.kids[c] = Append(@, child), !.parent[child] = c]]

\* append(child): transfers ownership; a child that already has a parent is
\* refused (the explicit-error policy of the specification's section 9).
otio_append(H, c, child) ==
  IF H.parent[child] # NoObj
  THEN [rc |-> 1, H |-> H]
  ELSE [rc |-> 0,
        H |-> [H EXCEPT !.kids[c] = Append(@, child), !.parent[child] = c]]

\* insert(index, child): fails if index > children_count() (or is negative).
otio_insert(H, c, index, child) ==
  IF index < 0 \/ index > Len(H.kids[c]) \/ H.parent[child] # NoObj
  THEN [rc |-> 1, H |-> H]
  ELSE [rc |-> 0,
        H |-> [H EXCEPT !.kids[c] = InsertAt(@, index, child), !.parent[child] = c]]

\* remove_child(index): detaches and destroys the child at index; fails with
\* IndexOutOfRange if the index is invalid.
otio_remove_child(H, c, index) ==
  IF index < 0 \/ index >= Len(H.kids[c])
  THEN [rc |-> 1, H |-> H]
  ELSE [rc |-> 0,
        H |-> Destroy([H EXCEPT !.kids[c] = RemoveAt(@, index + 1)],
                      H.kids[c][index + 1])]

RECURSIVE DestroyAll(_, _)
DestroyAll(H, s) ==
  IF s = <<>> THEN H ELSE DestroyAll(Destroy(H, Head(s)), Tail(s))

\* clear_children(): destroys all children; always succeeds.
otio_clear_children(H, c) ==
  [rc |-> 0, H |-> DestroyAll([H EXCEPT !.kids[c] = <<>>], H.kids[c])]

\* otio_timeline_create: a timeline owns exactly one root stack.
otio_timeline_create(H, tl, root) ==
  [Create(Create(H, tl, "Timeline", 0), root, "Stack", 0) EXCEPT !.kids[tl] = <<root>>]

\* otio_timeline_add_video_track: a new track, appended to the root stack.
otio_timeline_add_video_track(H, tl, track) ==
  LET root == H.kids[tl][1]
  IN [Create(H, track, "Track", 0) EXCEPT
        !.kids[root] = Append(@, track), !.parent[track] = root]

\* range_of_child_at_index on a track: the child's start is the sum of the
\* durations of the children before it, its duration is its own; an invalid
\* index is IndexOutOfRange.
otio_track_range_of_child_at_index(H, t, index) ==
  IF index < 0 \/ index >= Len(H.kids[t])
  THEN [code |-> 1, range |-> FfiRange(0, 0)]
  ELSE [code |-> 0,
        range |-> FfiRange(SumDur(H, H.kids[t], index),
                           ChildDuration(H, H.kids[t][index + 1]))]

\* range_of_child_at_index on a stack: every child starts at 0.
otio_stack_range_of_child_at_index(H, c, index) ==
  IF index < 0 \/ index >= Len(H.kids[c])
  THEN [code |-> 1, range |-> FfiRange(0, 0)]
  ELSE [code |-> 0, range |-> FfiRange(0, ChildDuration(H, H.kids[c][index + 1]))]

\* trimmed_range: the sum of the children's durations for a track, their
\* maximum for a stack; EmptyComposition without children.
otio_track_trimmed_range(H, t) ==
  IF H.kids[t] = <<>>
  THEN [code |-> 1, range |-> FfiRange(0, 0)]
  ELSE [code |-> 0, range |-> FfiRange(0, SumDur(H, H.kids[t], Len(H.kids[t])))]

otio_stack_trimmed_range(H, c) ==
  IF H.kids[c] = <<>>
  THEN [code |-> 1, range |-> FfiRange(0, 0)]
  ELSE [code |-> 0, range |-> FfiRange(0, MaxDurOf(H, H.kids[c], Len(H.kids[c])))]

\* otio_*_free: destroys the object and what it owns.
otio_free(H, o) == Destroy(H, o)

\* Parent type constants (must match C header defines)
PARENT_TYPE_TRACK == 1
PARENT_TYPE_STACK == 2

\* otio_*_get_parent_type and otio_*_get_parent: the container that holds the
\* object as a child, if any.  A timeline's root stack has none.
otio_get_parent_type(H, o) ==
  IF H.parent[o] = NoObj THEN 0
  ELSE IF H.kind[H.parent[o]] = "Track" THEN PARENT_TYPE_TRACK
  ELSE PARENT_TYPE_STACK

otio_get_parent(H, o) == H.parent[o]

\* otio_clip_range_in_parent / otio_gap_range_in_parent: the range the item
\* occupies in its parent's time, computed from the item: in a track it starts
\* where the siblings before it end, in a stack at 0; NoParent when detached.
otio_range_in_parent(H, o) ==
  LET P == H.parent[o]
      before == {j \in 1..Len(H.kids[P]) : \A i \in 1..j : H.kids[P][i] # o}
  IN IF P = NoObj
     THEN [code |-> 1, err |-> "NoParent", range |-> FfiRange(0, 0)]
     ELSE [code |-> 0, err |-> "",
           range |-> FfiRange(IF H.kind[P] = "Track"
                              THEN SumDur(H, H.kids[P], Cardinality(before))
                              ELSE 0,
                              ChildDuration(H, o))]

\* otio_track_find_clips / otio_stack_find_clips / otio_timeline_find_clips:
\* the clips of the subtree in depth-first child order, gaps and transitions
\* skipped; the iterator keeps the pointers found and a position.
RECURSIVE ClipsIn(_, _, _)
ClipsIn(H, s, n) ==
  IF n = 0 THEN <<>>
  ELSE ClipsIn(H, s, n - 1) \o
       (IF H.kind[s[n]] = "Clip" THEN <<s[n]>>
        ELSE ClipsIn(H, H.kids[s[n]], Len(H.kids[s[n]])))

otio_find_clips_shallow(H, self) ==
  [clips |-> SelectSeq(IF H.kind[self] = "Timeline" THEN H.kids[H.kids[self][1]]
                       ELSE H.kids[self],
                       LAMBDA x : H.kind[x] = "Clip"),
   pos |-> 0]

otio_find_clips(H, self) == [clips |-> ClipsIn(H, <<self>>, 1), pos |-> 0]

otio_clip_iterator_count(it) == Len(it.clips)

\* The next clip and the advanced iterator, or null at the end.
otio_clip_iterator_next(it) ==
  IF it.pos < Len(it.clips)
  THEN [ptr |-> it.clips[it.pos + 1], it |-> [it EXCEPT !.pos = @ + 1]]
  ELSE [ptr |-> NoObj, it |-> it]

otio_clip_iterator_reset(it) == [it EXCEPT !.pos = 0]

\* ----------------------------------------------------- the edit algorithms
\* A track as the edit algorithms see it: the sequence of its items, each with
\* its kind, its duration and the start of its source range.  A Transition
\* occupies no time.
Item(kind, dur, src) == [kind |-> kind, dur |-> dur, src |-> src]
NoClip == Item("None", 0, 0)
IsTransition(it) == it.kind = "Transition"
Times == 0..MaxTime
Min2(a, b) == IF a <= b THEN a ELSE b

RECURSIVE ItemStart(_, _)
ItemStart(t, i) == IF i <= 1 THEN 0 ELSE ItemStart(t, i - 1) + t[i - 1].dur
ItemEnd(t, i) == ItemStart(t, i) + t[i].dur
TrackEnd(t) == ItemStart(t, Len(t) + 1)

\* The items (not transitions) that span the time: start <= time < end.
Spanning(t, time) ==
  {i \in DOMAIN t : ~IsTransition(t[i]) /\ ItemStart(t, i) <= time /\ time < ItemEnd(t, i)}

\* The transitions that sit in [from, to].
TransitionsIn(t, from, to) ==
  {i \in DOMAIN t : IsTransition(t[i]) /\ from <= ItemStart(t, i) /\ ItemStart(t, i) <= to}

RECURSIVE Without(_, _, _)
Without(t, S, i) ==
  IF i > Len(t) THEN <<>>
  ELSE (IF i \in S THEN <<>> ELSE <<t[i]>>) \o Without(t, S, i + 1)

\* No item has a negative duration and every Transition has an item on each
\* side.
StructurallyValid(t) ==
  \A i \in DOMAIN t :
    /\ t[i].dur >= 0
    /\ IsTransition(t[i]) =>
         /\ i > 1 /\ i < Len(t)
         /\ ~IsTransition(t[i - 1]) /\ ~IsTransition(t[i + 1])

\* What is left of the items before time s (HeadParts) and after time e
\* (TailParts): an item across the boundary is truncated there.
RECURSIVE HeadParts(_, _, _)
HeadParts(t, pos, s) ==
  IF t = <<>> THEN <<>>
  ELSE LET it == Head(t)
           b == pos + it.dur
       IN (IF pos < s
           THEN <<[it EXCEPT !.dur = Min2(b, s) - pos]>>
           ELSE <<>>) \o HeadParts(Tail(t), b, s)

RECURSIVE TailParts(_, _, _)
TailParts(t, pos, e) ==
  IF t = <<>> THEN <<>>
  ELSE LET it == Head(t)
           b == pos + it.dur
           a == Max2(pos, e)
       IN (IF IsTransition(it)
           THEN (IF pos > e THEN <<it>> ELSE <<>>)
           ELSE IF b > e
                THEN <<[it EXCEPT !.dur = b - a,
                                  !.src = IF it.kind = "Clip" THEN @ + (a - pos) ELSE @]>>
                ELSE <<>>) \o TailParts(Tail(t), b, e)

GapTo(t, s) == IF TrackEnd(t) < s THEN <<Item("Gap", s - TrackEnd(t), 0)>> ELSE <<>>

\* The edit is refused, and the track left as it was, if it would make a
\* structurally valid track invalid.
Commit_partial(before, candidate) ==
  IF StructurallyValid(candidate) \/ ~StructurallyValid(before)
  THEN [rc |-> 0, err |-> "", trk |-> candidate]
  ELSE [rc |-> 1, err |-> "InvalidEdit", trk |-> candidate]
Commit_unvalidated(before, candidate) == [rc |-> 0, err |-> "", trk |-> candidate]
Commit(before, candidate) ==
  IF StructurallyValid(candidate) \/ ~StructurallyValid(before)
  THEN [rc |-> 0, err |-> "", trk |-> candidate]
  ELSE [rc |-> 1, err |-> "InvalidEdit", trk |-> before]

\* overwrite(item, range, remove_transitions)
otio_track_overwrite(t, item, s, d, remove_transitions) ==
  LET hit == TransitionsIn(t, s, s + d)
      base == Without(t, hit, 1)
      candidate == HeadParts(base, 0, s) \o GapTo(base, s)
                     \o <<[item EXCEPT !.dur = d]>> \o TailParts(base, 0, s + d)
  IN IF hit # {} /\ ~remove_transitions
     THEN [rc |-> 1, err |-> "TransitionConflict", trk |-> t]
     ELSE Commit(t, candidate)

\* insert_at_time(item, time, remove_transitions)
otio_track_insert_at_time(t, item, time, remove_transitions) ==
  LET hit == TransitionsIn(t, time, time)
      base == Without(t, hit, 1)
      candidate == HeadParts(base, 0, time) \o GapTo(base, time)
                     \o <<item>> \o TailParts(base, 0, time)
  IN IF hit # {} /\ ~remove_transitions
     THEN [rc |-> 1, err |-> "TransitionConflict", trk |-> t]
     ELSE Commit(t, candidate)

\* slice_at_time(time, remove_transitions)
otio_track_slice_at_time(t, time, remove_transitions) ==
  IF \E i \in DOMAIN t :
       ~IsTransition(t[i]) /\ ItemStart(t, i) < time /\ time < ItemEnd(t, i)
  THEN Commit(t, HeadParts(t, 0, time) \o TailParts(t, 0, time))
  ELSE [rc |-> 1, err |-> "NothingToSlice", trk |-> t]

\* remove_at_time(time, fill_with_gap)
otio_track_remove_at_time(t, time, fill_with_gap) ==
  IF Spanning(t, time) = {}
  THEN [rc |-> 1, err |-> "NothingToRemove", trk |-> t]
  ELSE LET i == CHOOSE j \in Spanning(t, time) : TRUE
       IN Commit(t, IF fill_with_gap
                    THEN [t EXCEPT ![i] = Item("Gap", t[i].dur, 0)]
                    ELSE RemoveAt(t, i))

\* The clip operations, on a clip that is in no track (the only clips a Clip
\* value can refer to): there is no sibling to take or give time.
otio_clip_slip(c, delta) ==
  IF c.src + delta < 0
  THEN [rc |-> 1, clip |-> c]
  ELSE [rc |-> 0, clip |-> [c EXCEPT !.src = @ + delta]]
otio_clip_slide(c, delta) == [rc |-> 1, clip |-> c]
otio_clip_trim(c, delta_in, delta_out) ==
  IF c.src + delta_in < 0 \/ c.dur - delta_in + delta_out <= 0
  THEN [rc |-> 1, clip |-> c]
  ELSE [rc |-> 0, clip |-> [c EXCEPT !.src = @ + delta_in, !.dur = @ - delta_in + delta_out]]
otio_clip_ripple(c, delta_in, delta_out) == otio_clip_trim(c, delta_in, delta_out)
otio_clip_roll(c, delta_in, delta_out) == [rc |-> 1, clip |-> c]

\* -------------------------------------------------------- the Rust handles
\* hnd[o]: the Rust value holding o's pointer: "none" (never made, moved, forgotten
\* or dropped), "owned" or "unowned" (a Track { owned: false }).
Borrowed(h) == \E v \in views : v.src = h
Usable(h) == hnd[h] # "none" /\ heap.st[h] = "live"

NoLast ==
  [op |-> "none", c |-> NoObj, idx |-> Usize(0), child |-> NoObj,
   attached |-> FALSE, ok |-> TRUE, before |-> <<>>,
   time |-> 0, dur |-> 0, flag |-> FALSE, item |-> NoClip, err |-> "",
   arg |-> 0, res |-> 0]

\* The record of a call op on container c in the current state.
Called(op, c, index, child, ok) ==
  [NoLast EXCEPT !.op = op, !.c = c, !.idx = index, !.child = child,
                 !.attached = (child # NoObj /\ heap.parent[child] # NoObj),
                 !.ok = ok, !.before = heap.kids[c]]

\* What dropping the Rust value of object o does: Timeline, Stack and Transition
\* free their object, a Track frees it when owned, Clip and Gap have no Drop.
DropValue(H, o, owned) ==
  CASE H.kind[o] \in {"Timeline", "Stack", "Transition"} -> otio_free(H, o)
    [] H.kind[o] = "Track" -> IF owned THEN otio_free(H, o) ELSE H
    [] OTHER -> H

impl_append(H, self, child, owned) ==
  LET r == otio_append(H, self, child)
  IN IF r.rc # 0
     THEN [ok |-> FALSE, H |-> DropValue(r.H, child, owned)]
     ELSE [ok |-> TRUE, H |-> r.H]

impl_insert(H, self, index, child, owned) ==
  LET r == otio_insert(H, self, as_i32(index), child)
  IN IF r.rc # 0
     THEN [ok |-> FALSE, H |-> DropValue(r.H, child, owned)]
     ELSE [ok |-> TRUE, H |-> r.H]

impl_remove_child(H, self, index) ==
  LET r == otio_remove_child(H, self, as_i32(index))
  IN IF r.rc # 0 THEN [ok |-> FALSE, H |-> r.H] ELSE [ok |-> TRUE, H |-> r.H]

impl_clear_children(H, self) ==
  LET r == otio_clear_children(H, self)
  IN IF r.rc # 0 THEN [ok |-> FALSE, H |-> r.H] ELSE [ok |-> TRUE, H |-> r.H]

impl_children_count(H, self) == count_as_usize(otio_children_count(H, self))

\* A query's Result: Err, or Ok with the range converted.
QueryResult(r) ==
  IF r.code # 0 THEN [ok |-> FALSE] ELSE [ok |-> TRUE, range |-> time_range_from_ffi(r.range)]

Track_range_of_child_at_index(H, self, index) ==
  QueryResult(otio_track_range_of_child_at_index(H, self, as_i32(index)))

Stack_range_of_child_at_index(H, self, index) ==
  QueryResult(otio_stack_range_of_child_at_index(H, self, as_i32(index)))

Track_trimmed_range_as_stack(H, self) == QueryResult(otio_stack_trimmed_range(H, self))
Track_trimmed_range(H, self) == QueryResult(otio_track_trimmed_range(H, self))

Stack_trimmed_range_as_track(H, self) == QueryResult(otio_track_trimmed_range(H, self))
Stack_trimmed_range(H, self) == QueryResult(otio_stack_trimmed_range(H, self))

\* NeighborGapPolicy::Never as the engine receives it (`policy as i32`).
Never == 0

\* neighbors_of under the Never policy: the children just before and just
\* after position index, the null pointer where there is none; an invalid index
\* is an error.  (AroundTransitions, under which the engine makes gaps next to
\* a transition, is not called here.)
otio_track_neighbors_of(H, t, index, policy) ==
  LET kids == H.kids[t]
  IN IF index < 0 \/ index >= Len(kids)
     THEN [code |-> 1, left |-> NoObj, right |-> NoObj]
     ELSE [code |-> 0,
           left |-> IF index = 0 THEN NoObj ELSE kids[index],
           right |-> IF index = Len(kids) - 1 THEN NoObj ELSE kids[index + 2]]

\* Option<Composable>: None for the null pointer, else the variant of the
\* child's type around the pointer.
composable_from_ffi(H, ptr) ==
  IF ptr = NoObj THEN [some |-> FALSE]
  ELSE IF H.kind[ptr] \in {"Clip", "Gap", "Stack", "Track", "Transition"}
  THEN [some |-> TRUE, kind |-> H.kind[ptr], ptr |-> ptr]
  ELSE [some |-> FALSE]

Track_neighbors_of(H, self, index, policy) ==
  LET result == otio_track_neighbors_of(H, self, as_i32(index), policy)
  IN IF result.code # 0
     THEN [ok |-> FALSE]
     ELSE [ok |-> TRUE,
           left |-> composable_from_ffi(H, result.left),
           right |-> composable_from_ffi(H, result.right)]

\* Option<ParentRef>: None, or Some(ParentRef::Track / ParentRef::Stack).
None == [some |-> FALSE]
SomeParent(kind, ptr) == [some |-> TRUE, kind |-> kind, ptr |-> ptr]

\* ------------------------------------------------- optional time values
\* The inputs: time values 0..MaxValue at the rates 1 and 24.
TimeInputs == {RationalTime_new(v, r) : v \in 0..MaxValue, r \in {1, TheRate}}

Some(v) == [some |-> TRUE, v |-> v]

TimeRange_end_time(self) ==
  RationalTime_new(self.start_time.value + self.duration.value, self.start_time.rate)

\* What the engine keeps besides the tree: whether the external reference
\* exists, the timeline's global start time and the reference's available
\* range, optional values both; whether the clip of the media reference calls
\* exists, the keys of its media reference map and its active key.  And, of
\* the Rust side, the handles that have been moved to a second thread.
NoAttr ==
  [external_ref |-> FALSE, global_start_time |-> None, available_range |-> None,
   clip |-> FALSE, media_references |-> {}, active_key |-> "",
   sent |-> {}]

\* The keys the media reference calls are given: the default key, another
\* one, and "nul", which stands for a &str with an interior NUL byte.
KeyInputs == {"DEFAULT_MEDIA", "proxy", "nul"}

\* Adding a reference under a key puts the key in the map (replacing the
\* reference the key had) and leaves the active key alone.
otio_clip_add_media_reference(A, key) ==
  [rc |-> 0, A |-> [A EXCEPT !.media_references = @ \cup {key}]]

\* Making a key active fails when the map has no such key and changes nothing.
otio_clip_set_active_media_reference_key(A, key) ==
  IF key \in A.media_references
  THEN [rc |-> 0, A |-> [A EXCEPT !.active_key = key]]
  ELSE [rc |-> 1, A |-> A]

\* The engine's getters return a plain struct: the value when there is one,
\* and value 0 at rate 1 (for a range: a duration of 0 at rate 1) when unset.
otio_timeline_get_global_start_time(A) ==
  IF A.global_start_time.some THEN A.global_start_time.v
  ELSE RationalTime_new(0, 1)

otio_external_ref_get_available_range(A) ==
  IF A.available_range.some THEN A.available_range.v
  ELSE TimeRange_new(RationalTime_new(0, 1), RationalTime_new(0, 1))

is_unset_rational_time(rt) == rt.rate = 1 /\ rt.value = 0

is_unset_time_range(tr) == tr.duration.rate = 1 /\ tr.duration.value = 0

Timeline_global_start_time(A) ==
  LET rt == otio_timeline_get_global_start_time(A)
  IN IF is_unset_rational_time(rt) THEN None
     ELSE Some(RationalTime_new(rt.value, rt.rate))

ExternalReference_available_range(A) ==
  LET range == otio_external_ref_get_available_range(A)
  IN IF is_unset_time_range(range) THEN None
     ELSE Some(time_range_from_ffi(range))

get_clip_parent_swapped(H, ptr) ==
  LET parent_type == otio_get_parent_type(H, ptr)
      parent_ptr == otio_get_parent(H, ptr)
  IN CASE parent_type = PARENT_TYPE_TRACK ->
            IF parent_ptr = NoObj THEN None ELSE SomeParent("Stack", parent_ptr)
       [] parent_type = PARENT_TYPE_STACK ->
            IF parent_ptr = NoObj THEN None ELSE SomeParent("Track", parent_ptr)
       [] OTHER -> None

get_clip_parent(H, ptr) ==
  LET parent_type == otio_get_parent_type(H, ptr)
      parent_ptr == otio_get_parent(H, ptr)
  IN CASE parent_type = PARENT_TYPE_TRACK ->
            IF parent_ptr = NoObj THEN None ELSE SomeParent("Track", parent_ptr)
       [] parent_type = PARENT_TYPE_STACK ->
            IF parent_ptr = NoObj THEN None ELSE SomeParent("Stack", parent_ptr)
       [] OTHER -> None

get_gap_parent(H, ptr) ==
  LET parent_type == otio_get_parent_type(H, ptr)
      parent_ptr == otio_get_parent(H, ptr)
  IN CASE parent_type = PARENT_TYPE_TRACK ->
            IF parent_ptr = NoObj THEN None ELSE SomeParent("Track", parent_ptr)
       [] parent_type = PARENT_TYPE_STACK ->
            IF parent_ptr = NoObj THEN None ELSE SomeParent("Stack", parent_ptr)
       [] OTHER -> None

\* Option<StackRef>: only a stack parent is reported.
get_track_parent(H, ptr) ==
  IF otio_get_parent_type(H, ptr) = PARENT_TYPE_STACK /\ otio_get_parent(H, ptr) # NoObj
  THEN SomeParent("Stack", otio_get_parent(H, ptr))
  ELSE None

get_stack_parent(H, ptr) ==
  IF otio_get_parent_type(H, ptr) = PARENT_TYPE_STACK /\ otio_get_parent(H, ptr) # NoObj
  THEN SomeParent("Stack", otio_get_parent(H, ptr))
  ELSE None

\* parent() where the API has it: ClipRef, GapRef, TrackRef and Track, and the
\* Stack value.
HasParentMethod(H, o) ==
  /\ H.st[o] = "live"
  /\ \/ H.kind[o] \in {"Clip", "Gap", "Track"}
     \/ H.kind[o] = "Stack" /\ hnd[o] # "none"

parent(H, o) ==
  CASE H.kind[o] = "Clip" -> get_clip_parent(H, o)
    [] H.kind[o] = "Gap" -> get_gap_parent(H, o)
    [] H.kind[o] = "Track" -> get_track_parent(H, o)
    [] OTHER -> get_stack_parent(H, o)

ClipRef_range_in_parent_swapped(H, self) ==
  LET r == otio_range_in_parent(H, self)
  IN IF r.code # 0 THEN [ok |-> FALSE, err |-> r.err]
     ELSE [ok |-> TRUE, range |-> time_range_from_ffi_swapped(r.range)]

ClipRef_range_in_parent(H, self) ==
  LET r == otio_range_in_parent(H, self)
  IN IF r.code # 0 THEN [ok |-> FALSE, err |-> r.err]
     ELSE [ok |-> TRUE, range |-> time_range_from_ffi(r.range)]

GapRef_range_in_parent(H, self) ==
  LET r == otio_range_in_parent(H, self)
  IN IF r.code # 0 THEN [ok |-> FALSE, err |-> r.err]
     ELSE [ok |-> TRUE, range |-> time_range_from_ffi(r.range)]

\* ClipSearchIter: the engine's iterator; src is the value it borrows.
find_clips(H, self) ==
  LET ptr == otio_find_clips(H, self)
  IN [clips |-> ptr.clips, pos |-> ptr.pos, src |-> self]

ClipSearchIter_count(it) == Max2(otio_clip_iterator_count(it), 0)

\* Iterator::next: Some(ClipRef) and the advanced iterator, or None.
ClipSearchIter_next(it) ==
  LET r == otio_clip_iterator_next(it)
  IN IF r.ptr = NoObj THEN [some |-> FALSE, it |-> r.it]
     ELSE [some |-> TRUE, ptr |-> r.ptr, it |-> r.it]

ClipSearchIter_reset(it) == otio_clip_iterator_reset(it)

\* Iterator::count, the provided method of the Iterator implementation: it
\* takes the iterator by value and counts the items next() still yields.
RECURSIVE Iterator_count(_)
Iterator_count(it) ==
  LET r == ClipSearchIter_next(it)
  IN IF r.some THEN 1 + Iterator_count(r.it) ELSE 0

\* What iterating to the end yields (collect()).
RECURSIVE Collect(_)
Collect(it) ==
  LET r == ClipSearchIter_next(it)
  IN IF r.some THEN <<r.ptr>> \o Collect(r.it) ELSE <<>>

\* The indexes the operations are called with: the small ones, 2^31, and
\* 2^32 + k for small k.
IndexInputs ==
  {Usize(l) : l \in 0..MaxIndex}
    \cup {[hi |-> Two15, lo |-> 0]}
    \cup {[hi |-> Two16, lo |-> l] : l \in 0..MaxWrap}

\* The objects a view obtained from handle h can refer to: everything in h's
\* tree (children(), find_clips(), parent(), tracks()), the timeline excepted.
RECURSIVE Top(_, _)
Top(H, o) ==
  IF H.kind[o] = "Timeline" THEN H.kids[o][1]
  ELSE IF H.parent[o] = NoObj THEN o ELSE Top(H, H.parent[o])
TreeOf(H, h) == Subtree(H, Top(H, h))

\* Which child types a container's append_* and insert_* methods take.
Accepts(H, c, child) ==
  \/ H.kind[c] = "Track" /\ H.kind[child] \in {"Clip", "Gap", "Stack", "Transition"}
  \/ H.kind[c] = "Stack" /\ H.kind[child] \in {"Track", "Clip", "Gap", "Stack"}

\* No call is in progress and no undefined behaviour has happened.
Idle == ~ub /\ last = NoLast

Init ==
  /\ heap = EmptyHeap
  /\ hnd = [o \in ObjIds |-> "none"]
  /\ views = {}
  /\ last = NoLast
  /\ ub = FALSE
  /\ trk = <<>>
  /\ clp = NoClip
  /\ attr = NoAttr

New(ids, k, d) ==
  LET o == NextFree(heap, ids)
  IN /\ heap' = Create(heap, o, k, d)
     /\ hnd' = [hnd EXCEPT ![o] = "owned"]
     /\ last' = NoLast
     /\ UNCHANGED <<attr, views, ub, trk, clp>>

Track_new_video ==
  /\ Idle /\ Unalloc(heap, TrackIds) # {}
  /\ New(TrackIds, "Track", 0)

Stack_new ==
  /\ Idle /\ Unalloc(heap, StackIds) # {}
  /\ New(StackIds, "Stack", 0)

Clip_new ==
  /\ Idle /\ Unalloc(heap, LeafIds) # {}
  /\ \E d \in Durs : New(LeafIds, "Clip", d)

Gap_new ==
  /\ Idle /\ Unalloc(heap, LeafIds) # {}
  /\ \E d \in Durs : New(LeafIds, "Gap", d)

Transition_new ==
  /\ Idle /\ Unalloc(heap, LeafIds) # {}
  /\ New(LeafIds, "Transition", 0)

AppendChild ==
  \E c \in ObjIds, child \in ObjIds :
    /\ Idle
    /\ c # child
    /\ Usable(c) /\ Usable(child)
    /\ ~Borrowed(c) /\ ~Borrowed(child)
    /\ Accepts(heap, c, child)
    /\ LET r == impl_append(heap, c, child, hnd[child] = "owned")
       IN /\ heap' = r.H
          /\ last' = Called("append", c, Usize(0), child, r.ok)
    /\ hnd' = [hnd EXCEPT ![child] = "none"]
    /\ UNCHANGED <<attr, views, ub, trk, clp>>

InsertChild ==
  \E c \in ObjIds, child \in ObjIds, index \in IndexInputs :
    /\ Idle
    /\ c # child
    /\ Usable(c) /\ Usable(child)
    /\ ~Borrowed(c) /\ ~Borrowed(child)
    /\ Accepts(heap, c, child)
    /\ LET r == impl_insert(heap, c, index, child, hnd[child] = "owned")
       IN /\ heap' = r.H
          /\ last' = Called("insert", c, index, child, r.ok)
    /\ hnd' = [hnd EXCEPT ![child] = "none"]
    /\ UNCHANGED <<attr, views, ub, trk, clp>>

RemoveChild ==
  \E c \in ObjIds, index \in IndexInputs :
    /\ Idle
    /\ Usable(c) /\ ~Borrowed(c)
    /\ IsComposition(heap, c)
    /\ LET r == impl_remove_child(heap, c, index)
       IN /\ heap' = r.H
          /\ last' = Called("remove_child", c, index, NoObj, r.ok)
    /\ UNCHANGED <<attr, hnd, views, ub, trk, clp>>

ClearChildren ==
  \E c \in ObjIds :
    /\ Idle
    /\ Usable(c) /\ ~Borrowed(c)
    /\ IsComposition(heap, c)
    /\ LET r == impl_clear_children(heap, c)
       IN /\ heap' = r.H
          /\ last' = Called("clear_children", c, Usize(0), NoObj, r.ok)
    /\ UNCHANGED <<attr, hnd, views, ub, trk, clp>>

Timeline_new ==
  /\ Idle
  /\ heap.st[TimelineId] = "unalloc"
  /\ heap' = otio_timeline_create(heap, TimelineId, RootId)
  /\ hnd' = [hnd EXCEPT ![TimelineId] = "owned"]
  /\ last' = NoLast
  /\ UNCHANGED <<attr, views, ub, trk, clp>>

\* Timeline::add_video_track (add_audio_track is the same code).
Timeline_add_video_track ==
  /\ Idle
  /\ Usable(TimelineId) /\ ~Borrowed(TimelineId)
  /\ Unalloc(heap, TrackIds) # {}
  /\ LET t == NextFree(heap, TrackIds)
     IN /\ heap' = otio_timeline_add_video_track(heap, TimelineId, t)
        /\ hnd' = [hnd EXCEPT ![t] = "unowned"]
        \* the Track value is returned on the thread that holds the timeline
        /\ attr' = [attr EXCEPT !.sent = IF TimelineId \in @ THEN @ \cup {t} ELSE @ \ {t}]
  /\ last' = NoLast
  /\ UNCHANGED <<views, ub, trk, clp>>

\* A value going out of scope (or drop(value)).
DropHandle ==
  \E h \in ObjIds :
    /\ Idle
    /\ hnd[h] # "none" /\ ~Borrowed(h)
    /\ heap' = DropValue(heap, h, hnd[h] = "owned")
    /\ hnd' = [hnd EXCEPT ![h] = "none"]
    /\ last' = NoLast
    /\ UNCHANGED <<attr, views, ub, trk, clp>>

\* children(), find_clips(), neighbors_of(), parent(), tracks(): a view of an
\* object of h's tree, borrowing h.
TakeView ==
  \E h \in ObjIds, o \in ObjIds :
    /\ Idle
    /\ Usable(h)
    /\ Cardinality(views) < MaxViews
    /\ o \in TreeOf(heap, h)
    /\ views' = views \cup {[ptr |-> o, src |-> h]}
    /\ last' = NoLast
    /\ UNCHANGED <<attr, heap, hnd, ub, trk, clp>>

DropView ==
  \E v \in views :
    /\ Idle
    /\ views' = views \ {v}
    /\ last' = NoLast
    /\ UNCHANGED <<attr, heap, hnd, ub, trk, clp>>

\* A method called on a handle or view whose object has been destroyed.
UseDangling ==
  /\ Idle
  /\ \/ \E h \in ObjIds : hnd[h] # "none" /\ heap.st[h] = "freed"
     \/ \E v \in views : heap.st[v.ptr] = "freed"
  /\ ub' = TRUE
  /\ last' = NoLast
  /\ UNCHANGED <<attr, heap, hnd, views, trk, clp>>

\* The caller has looked at the Result of the last call and goes on.
ResultConsumed ==
  /\ ~ub
  /\ last # NoLast
  /\ last' = NoLast
  /\ UNCHANGED <<attr, heap, hnd, views, ub, trk, clp>>

Next ==
  \/ ResultConsumed
  \/ Timeline_new
  \/ Timeline_add_video_track
  \/ InsertChild
  \/ RemoveChild
  \/ ClearChildren
  \/ DropHandle
  \/ UseDangling
  \/ Track_new_video
  \/ Stack_new
  \/ Clip_new
  \/ Gap_new
  \/ Transition_new
  \/ AppendChild

Spec == Init /\ [][Next]_vars

\* ------------------------------------------------------- the edit calls
\* The record of an edit call on the track in the current state.
EditCalled(op, ok) == [NoLast EXCEPT !.op = op, !.ok = ok, !.before = trk]

\* The same with the arguments of a track edit and the engine's error.
TrackEditCalled(op, r, time, dur, flag, item) ==
  [EditCalled(op, ~(r.rc # 0)) EXCEPT
     !.time = time, !.dur = dur, !.flag = flag, !.item = item, !.err = r.err]
Deltas == (0 - MaxDelta)..MaxDelta

\* Clip::new for the clip the edit calls are given.
Edit_Clip_new ==
  /\ Idle /\ clp = NoClip
  /\ \E d \in Durs, src \in 0..MaxSrc : clp' = Item("Clip", d, src)
  /\ last' = NoLast
  /\ UNCHANGED <<attr, heap, hnd, views, ub, trk>>

\* Track::append_clip, append_gap and append_transition.
Edit_append_clip ==
  /\ Idle /\ clp # NoClip /\ Len(trk) < MaxItems
  /\ trk' = Append(trk, clp)
  /\ clp' = NoClip
  /\ last' = NoLast
  /\ UNCHANGED <<attr, heap, hnd, views, ub>>

Edit_append_gap ==
  /\ Idle /\ Len(trk) < MaxItems
  /\ \E d \in Durs : trk' = Append(trk, Item("Gap", d, 0))
  /\ last' = NoLast
  /\ UNCHANGED <<attr, heap, hnd, views, ub, clp>>

Edit_append_transition ==
  /\ Idle /\ Len(trk) < MaxItems
  /\ trk' = Append(trk, Item("Transition", 0, 0))
  /\ last' = NoLast
  /\ UNCHANGED <<attr, heap, hnd, views, ub, clp>>

\* An edit call that takes the clip: the clip value is gone either way
\* (forgotten on success, dropped without a destructor on failure).
Track_overwrite_as_insert ==
  \E s \in Times, d \in Durs, remove_transitions \in BOOLEAN :
    /\ Idle /\ clp # NoClip
    /\ LET r == otio_track_insert_at_time(trk, [clp EXCEPT !.dur = d], s, remove_transitions)
       IN /\ Len(r.trk) <= MaxItems
          /\ trk' = r.trk
          /\ last' = TrackEditCalled("overwrite", r, s, d, remove_transitions, clp)
    /\ clp' = NoClip
    /\ UNCHANGED <<attr, heap, hnd, views, ub>>

Track_overwrite_forcing ==
  \E s \in Times, d \in Durs, remove_transitions \in BOOLEAN :
    /\ Idle /\ clp # NoClip
    /\ LET r == otio_track_overwrite(trk, clp, s, d, TRUE)
       IN /\ Len(r.trk) <= MaxItems
          /\ trk' = r.trk
          /\ last' = TrackEditCalled("overwrite", r, s, d, remove_transitions, clp)
    /\ clp' = NoClip
    /\ UNCHANGED <<attr, heap, hnd, views, ub>>

Track_overwrite ==
  \E s \in Times, d \in Durs, remove_transitions \in BOOLEAN :
    /\ Idle /\ clp # NoClip
    /\ LET r == otio_track_overwrite(trk, clp, s, d, remove_transitions)
       IN /\ Len(r.trk) <= MaxItems
          /\ trk' = r.trk
          /\ last' = TrackEditCalled("overwrite", r, s, d, remove_transitions, clp)
    /\ clp' = NoClip
    /\ UNCHANGED <<attr, heap, hnd, views, ub>>

Track_insert_at_time_as_overwrite ==
  \E time \in Times, remove_transitions \in BOOLEAN :
    /\ Idle /\ clp # NoClip
    /\ LET r == otio_track_overwrite(trk, clp, time, clp.dur, remove_transitions)
       IN /\ Len(r.trk) <= MaxItems
          /\ trk' = r.trk
          /\ last' = TrackEditCalled("insert_at_time", r, time, clp.dur, remove_transitions, clp)
    /\ clp' = NoClip
    /\ UNCHANGED <<attr, heap, hnd, views, ub>>

Track_insert_at_time ==
  \E time \in Times, remove_transitions \in BOOLEAN :
    /\ Idle /\ clp # NoClip
    /\ LET r == otio_track_insert_at_time(trk, clp, time, remove_transitions)
       IN /\ Len(r.trk) <= MaxItems
          /\ trk' = r.trk
          /\ last' = TrackEditCalled("insert_at_time", r, time, clp.dur, remove_transitions, clp)
    /\ clp' = NoClip
    /\ UNCHANGED <<attr, heap, hnd, views, ub>>

Track_slice_at_time_shifted ==
  \E time \in Times, remove_transitions \in BOOLEAN :
    /\ Idle
    /\ LET r == otio_track_slice_at_time(trk, time + 1, remove_transitions)
       IN /\ Len(r.trk) <= MaxItems
          /\ trk' = r.trk
          /\ last' = TrackEditCalled("slice_at_time", r, time, 0, remove_transitions, NoClip)
    /\ UNCHANGED <<attr, heap, hnd, views, ub, clp>>

Track_slice_at_time_unchecked ==
  \E time \in Times, remove_transitions \in BOOLEAN :
    /\ Idle
    /\ LET r == otio_track_slice_at_time(trk, time, remove_transitions)
       IN /\ Len(r.trk) <= MaxItems
          /\ trk' = r.trk
          /\ last' = TrackEditCalled("slice_at_time", [r EXCEPT !.rc = 0, !.err = ""],
                                     time, 0, remove_transitions, NoClip)
    /\ UNCHANGED <<attr, heap, hnd, views, ub, clp>>

Track_slice_at_time ==
  \E time \in Times, remove_transitions \in BOOLEAN :
    /\ Idle
    /\ LET r == otio_track_slice_at_time(trk, time, remove_transitions)
       IN /\ Len(r.trk) <= MaxItems
          /\ trk' = r.trk
          /\ last' = TrackEditCalled("slice_at_time", r, time, 0, remove_transitions, NoClip)
    /\ UNCHANGED <<attr, heap, hnd, views, ub, clp>>

Track_remove_at_time_negated ==
  \E time \in Times, fill_with_gap \in BOOLEAN :
    /\ Idle
    /\ LET r == otio_track_remove_at_time(trk, time, ~fill_with_gap)
       IN /\ trk' = r.trk
          /\ last' = TrackEditCalled("remove_at_time", r, time, 0, fill_with_gap, NoClip)
    /\ UNCHANGED <<attr, heap, hnd, views, ub, clp>>

Track_remove_at_time ==
  \E time \in Times, fill_with_gap \in BOOLEAN :
    /\ Idle
    /\ LET r == otio_track_remove_at_time(trk, time, fill_with_gap)
       IN /\ trk' = r.trk
          /\ last' = TrackEditCalled("remove_at_time", r, time, 0, fill_with_gap, NoClip)
    /\ UNCHANGED <<attr, heap, hnd, views, ub, clp>>

\* The clip operations: methods of a Clip value, so of a clip in no track.
ClipEdit(op, r) ==
  /\ r.clip.src <= MaxSrc /\ r.clip.dur <= MaxDur
  /\ clp' = r.clip
  /\ last' = EditCalled(op, ~(r.rc # 0))
  /\ UNCHANGED <<attr, heap, hnd, views, ub, trk>>

Clip_slip ==
  /\ Idle /\ clp # NoClip
  /\ \E delta \in Deltas : ClipEdit("slip", otio_clip_slip(clp, delta))

Clip_slide ==
  /\ Idle /\ clp # NoClip
  /\ \E delta \in Deltas : ClipEdit("slide", otio_clip_slide(clp, delta))

Clip_trim ==
  /\ Idle /\ clp # NoClip
  /\ \E delta_in \in Deltas, delta_out \in Deltas :
       ClipEdit("trim", otio_clip_trim(clp, delta_in, delta_out))

Clip_ripple ==
  /\ Idle /\ clp # NoClip
  /\ \E delta_in \in Deltas, delta_out \in Deltas :
       ClipEdit("ripple", otio_clip_ripple(clp, delta_in, delta_out))

Clip_roll ==
  /\ Idle /\ clp # NoClip
  /\ \E delta_in \in Deltas, delta_out \in Deltas :
       ClipEdit("roll", otio_clip_roll(clp, delta_in, delta_out))

EditNext ==
  \/ ResultConsumed
  \/ Edit_Clip_new
  \/ Edit_append_clip
  \/ Edit_append_gap
  \/ Edit_append_transition
  \/ Track_overwrite
  \/ Track_insert_at_time
  \/ Track_slice_at_time
  \/ Track_remove_at_time
  \/ Clip_slip
  \/ Clip_slide
  \/ Clip_trim
  \/ Clip_ripple
  \/ Clip_roll

EditSpec == Init /\ [][EditNext]_vars

\* std::thread::spawn(move || ...) taking a handle: Timeline, Track and Stack
\* are Send, and a value that is not borrowed can be moved.
Send_handle ==
  \E h \in ObjIds :
    /\ Idle
    /\ Usable(h) /\ ~Borrowed(h)
    /\ heap.kind[h] \in {"Timeline", "Track", "Stack"}
    /\ h \notin attr.sent
    /\ attr' = [attr EXCEPT !.sent = @ \cup {h}]
    /\ last' = NoLast
    /\ UNCHANGED <<heap, hnd, views, ub, trk, clp>>

\* The same program with the views: a timeline, its tracks and their clips,
\* reached through handles and through views borrowed from them.
ViewNext ==
  \/ ResultConsumed
  \/ Send_handle
  \/ Timeline_new
  \/ Timeline_add_video_track
  \/ Clip_new
  \/ AppendChild
  \/ ClearChildren
  \/ DropHandle
  \/ TakeView
  \/ DropView
  \/ UseDangling

ViewSpec == Init /\ [][ViewNext]_vars

\* ---------------------------------------------------------- find_clips()
\* The record of a call on a find_clips() iterator: the value it borrows, the
\* clips it found, the number the call returned and the clip it yielded.
IterCalled(op, it, result, yielded, ok) ==
  [NoLast EXCEPT !.op = op, !.c = it.src, !.idx = Usize(result),
                 !.child = yielded, !.ok = ok, !.before = it.clips]

\* let mut iter = h.find_clips();
Find_clips ==
  \E h \in ObjIds :
    /\ Idle
    /\ Usable(h)
    /\ heap.kind[h] \in {"Track", "Stack", "Timeline"}
    /\ Cardinality(views) < MaxViews
    /\ views' = views \cup {find_clips(heap, h)}
    /\ last' = IterCalled("find_clips", find_clips(heap, h), 0, NoObj, TRUE)
    /\ UNCHANGED <<attr, heap, hnd, ub, trk, clp>>

\* iter.next()
Iter_next ==
  \E it \in views :
    /\ Idle
    /\ LET r == ClipSearchIter_next(it)
       IN /\ views' = (views \ {it}) \cup {r.it}
          /\ last' = IterCalled("next", it, it.pos, IF r.some THEN r.ptr ELSE NoObj, r.some)
    /\ UNCHANGED <<attr, heap, hnd, ub, trk, clp>>

\* iter.count(): the receiver is the iterator itself, so the call resolves to
\* Iterator::count(self) before the inherent count(&self) is considered; the
\* iterator is moved into the call.
Iter_count ==
  \E it \in views :
    /\ Idle
    /\ views' = views \ {it}
    /\ last' = IterCalled("count", it, Iterator_count(it), NoObj, TRUE)
    /\ UNCHANGED <<attr, heap, hnd, ub, trk, clp>>

\* iter.size_hint(): its upper bound is the inherent count(&self).
Iter_size_hint ==
  \E it \in views :
    /\ Idle
    /\ last' = IterCalled("size_hint", it, ClipSearchIter_count(it), NoObj, TRUE)
    /\ UNCHANGED <<attr, heap, hnd, views, ub, trk, clp>>

\* iter.reset()
Iter_reset ==
  \E it \in views :
    /\ Idle
    /\ views' = (views \ {it}) \cup {ClipSearchIter_reset(it)}
    /\ last' = IterCalled("reset", it, it.pos, NoObj, TRUE)
    /\ UNCHANGED <<attr, heap, hnd, ub, trk, clp>>

FindNext ==
  \/ ResultConsumed
  \/ Timeline_new
  \/ Timeline_add_video_track
  \/ Track_new_video
  \/ Stack_new
  \/ Clip_new
  \/ Gap_new
  \/ AppendChild
  \/ Find_clips
  \/ Iter_next
  \/ Iter_count
  \/ Iter_size_hint
  \/ Iter_reset
  \/ DropView

FindSpec == Init /\ [][FindNext]_vars

\* ------------------------------------------------------------ children()
\* child_at: the child at position index, the null pointer when the position
\* does not exist.
otio_child_at(H, c, index) ==
  IF index < 0 \/ index >= Len(H.kids[c]) THEN NoObj ELSE H.kids[c][index + 1]

\* TrackChildIter::new and StackChildIter::new: the count is read once.
TrackChildIter_new(H, ptr, src) ==
  [ptr |-> ptr, index |-> 0, count |-> otio_children_count(H, ptr),
   yielded |-> 0, src |-> src]

\* next() reading the container's count at every call.
RECURSIVE TrackChildIter_next_live(_, _)
TrackChildIter_next_live(H, self) ==
  IF self.index >= otio_children_count(H, self.ptr)
  THEN [some |-> FALSE, it |-> self]
  ELSE LET child_ptr == otio_child_at(H, self.ptr, self.index)
           moved == [self EXCEPT !.index = @ + 1]
       IN IF child_ptr = NoObj
          THEN TrackChildIter_next_live(H, moved)
          ELSE [some |-> TRUE, kind |-> H.kind[child_ptr], ptr |-> child_ptr,
                it |-> [moved EXCEPT !.yielded = @ + 1]]

\* TrackChildIter::next and StackChildIter::next; yielded counts the items
\* the iterator has returned.
RECURSIVE TrackChildIter_next(_, _)
TrackChildIter_next(H, self) ==
  IF self.index >= self.count
  THEN [some |-> FALSE, it |-> self]
  ELSE LET child_ptr == otio_child_at(H, self.ptr, self.index)
           moved == [self EXCEPT !.index = @ + 1]
       IN IF child_ptr = NoObj
          THEN TrackChildIter_next(H, moved)
          ELSE [some |-> TRUE, kind |-> H.kind[child_ptr], ptr |-> child_ptr,
                it |-> [moved EXCEPT !.yielded = @ + 1]]

\* let mut iter = c.children(); for a track or stack c reached from handle h,
\* which the iterator borrows.
Children ==
  \E h \in ObjIds, c \in ObjIds :
    /\ Idle
    /\ Usable(h)
    /\ views = {}
    /\ c \in TreeOf(heap, h) /\ IsComposition(heap, c)
    /\ views' = {TrackChildIter_new(heap, c, h)}
    /\ last' = NoLast
    /\ UNCHANGED <<heap, hnd, ub, trk, clp, attr>>

\* iter.next()
Child_next ==
  \E it \in views :
    /\ Idle
    /\ LET r == TrackChildIter_next(heap, it)
       IN /\ views' = (views \ {it}) \cup {r.it}
          /\ last' = [NoLast EXCEPT !.op = "child_next", !.c = it.ptr,
                                    !.idx = Usize(it.index),
                                    !.child = IF r.some THEN r.ptr ELSE NoObj,
                                    !.ok = r.some, !.before = heap.kids[it.ptr]]
    /\ UNCHANGED <<heap, hnd, ub, trk, clp, attr>>

\* A timeline and its track, mutated through the Track handle while an
\* iterator borrowed from the Timeline handle goes over it.
ChildIterNext ==
  \/ ResultConsumed
  \/ Timeline_new
  \/ Timeline_add_video_track
  \/ Clip_new
  \/ Gap_new
  \/ AppendChild
  \/ InsertChild
  \/ RemoveChild
  \/ ClearChildren
  \/ Children
  \/ Child_next
  \/ DropView

ChildIterSpec == Init /\ [][ChildIterNext]_vars

\* ------------------------------------------------ times and references
\* The engine's setters store the value and cannot fail on a live object:
\* result is 0.
ExternalReference_new ==
  /\ Idle
  /\ ~attr.external_ref
  /\ attr' = [attr EXCEPT !.external_ref = TRUE, !.available_range = None]
  /\ last' = NoLast
  /\ UNCHANGED <<heap, hnd, views, ub, trk, clp>>

ExternalReference_set_available_range ==
  \E start_time \in TimeInputs, duration \in TimeInputs :
    LET range == TimeRange_new(start_time, duration)
        result == 0
    IN /\ Idle
       /\ attr.external_ref
       /\ attr' = [attr EXCEPT !.available_range = Some(range)]
       /\ last' = [NoLast EXCEPT !.op = "set_available_range", !.arg = range,
                                 !.ok = ~(result # 0)]
       /\ UNCHANGED <<heap, hnd, views, ub, trk, clp>>

Timeline_set_global_start_time ==
  \E time \in TimeInputs :
    LET result == 0
    IN /\ Idle
       /\ Usable(TimelineId)
       /\ attr' = [attr EXCEPT !.global_start_time = Some(time)]
       /\ last' = [NoLast EXCEPT !.op = "set_global_start_time", !.arg = time,
                                 !.ok = ~(result # 0)]
       /\ UNCHANGED <<heap, hnd, views, ub, trk, clp>>

\* range.end_time() on a range the caller has built.
Call_end_time ==
  \E start_time \in TimeInputs, duration \in TimeInputs :
    LET range == TimeRange_new(start_time, duration)
    IN /\ Idle
       /\ last' = [NoLast EXCEPT !.op = "end_time", !.arg = range,
                                 !.res = TimeRange_end_time(range)]
       /\ UNCHANGED <<heap, hnd, views, ub, trk, clp, attr>>

\* The clip of the media reference calls: a new clip has the default key
\* only, and that key is active.
Attr_Clip_new ==
  /\ Idle
  /\ ~attr.clip
  /\ attr' = [attr EXCEPT !.clip = TRUE, !.media_references = {"DEFAULT_MEDIA"},
                          !.active_key = "DEFAULT_MEDIA"]
  /\ last' = NoLast
  /\ UNCHANGED <<heap, hnd, views, ub, trk, clp>>

\* CString::new(key).unwrap() panics on a key with an interior NUL byte,
\* before the engine is called; the reference value is moved into the call in
\* every case.
Clip_add_external_reference ==
  \E key \in KeyInputs :
    LET result == otio_clip_add_media_reference(attr, key)
    IN /\ Idle
       /\ attr.clip /\ attr.external_ref
       /\ IF key = "nul"
          THEN /\ attr' = [attr EXCEPT !.external_ref = FALSE]
               /\ last' = [NoLast EXCEPT !.op = "add_external_reference", !.arg = key,
                                         !.before = attr, !.ok = FALSE, !.err = "panic"]
          ELSE /\ attr' = [result.A EXCEPT !.external_ref = FALSE]
               /\ last' = [NoLast EXCEPT !.op = "add_external_reference", !.arg = key,
                                         !.before = attr, !.ok = ~(result.rc # 0)]
       /\ UNCHANGED <<heap, hnd, views, ub, trk, clp>>

Clip_set_active_media_reference_key ==
  \E key \in KeyInputs :
    LET result == otio_clip_set_active_media_reference_key(attr, key)
    IN /\ Idle
       /\ attr.clip
       /\ IF key = "nul"
          THEN /\ attr' = attr
               /\ last' = [NoLast EXCEPT !.op = "set_active_media_reference_key",
                                         !.arg = key, !.before = attr,
                                         !.ok = FALSE, !.err = "panic"]
          ELSE /\ attr' = result.A
               /\ last' = [NoLast EXCEPT !.op = "set_active_media_reference_key",
                                         !.arg = key, !.before = attr,
                                         !.ok = ~(result.rc # 0)]
       /\ UNCHANGED <<heap, hnd, views, ub, trk, clp>>

AttrNext ==
  \/ ResultConsumed
  \/ Call_end_time
  \/ Attr_Clip_new
  \/ Clip_add_external_reference
  \/ Clip_set_active_media_reference_key
  \/ Timeline_new
  \/ ExternalReference_new
  \/ ExternalReference_set_available_range
  \/ Timeline_set_global_start_time

AttrSpec == Init /\ [][AttrNext]_vars

\* -------------------------------------------------------- the properties
LiveOf(k) == {o \in ObjIds : heap.st[o] = "live" /\ heap.kind[o] = k}
ValidIndexes(c) == 0..(Len(heap.kids[c]) - 1)
ChildAt(c, i) == heap.kids[c][i + 1]

RECURSIVE SeqSum(_)
SeqSum(s) == IF s = <<>> THEN 0 ELSE Head(s) + SeqSum(Tail(s))
ChildDurations(c) == [n \in 1..Len(heap.kids[c]) |-> ChildDuration(heap, heap.kids[c][n])]

\* C1: in every state the operations reach, for every track and every valid
\* index i, range_of_child_at_index(i) succeeds, its duration is child i's own
\* duration, and its start is 0 for i = 0 and otherwise the start of child
\* i-1 plus the duration of child i-1 (so the sum of the durations before i).
C1_SequentialLayout ==
  \A t \in LiveOf("Track") : \A i \in ValidIndexes(t) :
    LET r == Track_range_of_child_at_index(heap, t, Usize(i))
    IN /\ r.ok
       /\ r.range.duration = RationalTime_new(ChildDuration(heap, ChildAt(t, i)), TheRate)
       /\ r.range.start_time.value = SeqSum(SubSeq(ChildDurations(t), 1, i))
       /\ i > 0 =>
            LET q == Track_range_of_child_at_index(heap, t, Usize(i - 1))
            IN r.range.start_time.value = q.range.start_time.value + q.range.duration.value

\* A successful insert has left a track whose second child starts at 2, the
\* duration of the first.
C1_Witness ==
  /\ last.op = "insert" /\ last.ok
  /\ heap.kind[last.c] = "Track" /\ Len(heap.kids[last.c]) = 2
  /\ ChildDuration(heap, ChildAt(last.c, 0)) = 2
  /\ LET r == Track_range_of_child_at_index(heap, last.c, Usize(1))
     IN r.ok /\ r.range.start_time.value = 2 /\ r.range.duration.value = 1

\* C2: in every state the operations reach, for every stack with at least one
\* child, range_of_child_at_index of every child succeeds with start 0, and
\* trimmed_range() succeeds with a duration that is the largest of the
\* children's durations (no child is longer, one child is as long).
C2_LayeredLayout ==
  \A c \in LiveOf("Stack") :
    heap.kids[c] # <<>> =>
      LET tr == Stack_trimmed_range(heap, c)
      IN /\ \A i \in ValidIndexes(c) :
              LET r == Stack_range_of_child_at_index(heap, c, Usize(i))
              IN r.ok /\ r.range.start_time.value = 0
         /\ tr.ok
         /\ \A i \in ValidIndexes(c) :
              tr.range.duration.value >= ChildDuration(heap, ChildAt(c, i))
         /\ \E i \in ValidIndexes(c) :
              tr.range.duration.value = ChildDuration(heap, ChildAt(c, i))

\* A successful append has left a stack with children of durations 1 and 2,
\* whose trimmed range has duration 2 where the sum is 3.
C2_Witness ==
  /\ last.op = "append" /\ last.ok
  /\ heap.kind[last.c] = "Stack" /\ Len(heap.kids[last.c]) = 2
  /\ ChildDuration(heap, ChildAt(last.c, 0)) = 1
  /\ ChildDuration(heap, ChildAt(last.c, 1)) = 2
  /\ LET tr == Stack_trimmed_range(heap, last.c)
     IN tr.ok /\ tr.range.duration.value = 2

\* C3: in every state the operations reach, for every track with at least one
\* child, trimmed_range() succeeds and its duration is the sum of the
\* durations of all the children.
C3_TrackTrimmedRangeIsSum ==
  \A t \in LiveOf("Track") :
    heap.kids[t] # <<>> =>
      LET tr == Track_trimmed_range(heap, t)
      IN tr.ok /\ tr.range.duration.value = SeqSum(ChildDurations(t))

\* A successful remove_child has left a track with children of durations 2
\* and 1, whose trimmed range has duration 3.
C3_Witness ==
  /\ last.op = "remove_child" /\ last.ok
  /\ heap.kind[last.c] = "Track" /\ Len(heap.kids[last.c]) = 2
  /\ ChildDuration(heap, ChildAt(last.c, 0)) = 2
  /\ ChildDuration(heap, ChildAt(last.c, 1)) = 1
  /\ LET tr == Track_trimmed_range(heap, last.c)
     IN tr.ok /\ tr.range.duration.value = 3

TrackEditOps == {"overwrite", "insert_at_time", "slice_at_time", "remove_at_time"}
ClipEditOps == {"slip", "slide", "trim", "ripple", "roll"}

\* C4: after an edit operation (overwrite, insert_at_time, slice_at_time,
\* remove_at_time, slip, slide, trim, ripple, roll) that returned an error,
\* the track has the items it had before the call, in the same order, with
\* the same kinds, durations and source starts.
C4_FailedEditLeavesTrack ==
  (last.op \in TrackEditOps \cup ClipEditOps /\ ~last.ok) => trk = last.before

\* An overwrite has failed on a track of two items with a Transition between
\* them, and the track is as before.
C4_Witness ==
  /\ last.op = "overwrite" /\ ~last.ok
  /\ Len(last.before) = 3 /\ IsTransition(last.before[2])
  /\ StructurallyValid(last.before)
  /\ trk = last.before

\* C5: in every state the operations reach, every object is a child of at
\* most one container, at one position only, and its parent pointer names that
\* container; an append or insert of a child that was already attached has
\* failed and has left both containers as they were.
C5_AtMostOneParent ==
  /\ \A o \in ObjIds :
       /\ Cardinality({c \in ObjIds : heap.kind[c] # "Timeline" /\ o \in Range(heap.kids[c])}) <= 1
       /\ \A c \in ObjIds :
            /\ Cardinality({i \in DOMAIN heap.kids[c] : heap.kids[c][i] = o}) <= 1
            /\ (heap.kind[c] # "Timeline" /\ o \in Range(heap.kids[c])) => heap.parent[o] = c
  /\ (last.op \in {"append", "insert"} /\ last.attached) =>
       /\ ~last.ok
       /\ heap.kids[last.c] = last.before
       /\ heap.parent[last.child] # last.c

\* The track handle returned by Timeline::add_video_track has been passed to
\* another stack's append_track: the call failed and the track is still the
\* root stack's child.
C5_Witness ==
  /\ last.op = "append" /\ last.attached /\ ~last.ok
  /\ heap.kind[last.child] = "Track" /\ heap.kind[last.c] = "Stack"
  /\ last.c # RootId
  /\ heap.parent[last.child] = RootId
  /\ heap.st[TimelineId] = "live"

\* C6: no method is ever called on a handle or a view whose object has been
\* destroyed.
C6_NoUseAfterDestroy == ub = FALSE

C8_InsertSemantics ==
  (last.op = "insert" /\ ~last.attached) =>
    IF UsizeLe(last.idx, Usize(Len(last.before)))
    THEN /\ last.ok
         /\ heap.kids[last.c] = InsertAt(last.before, last.idx.lo, last.child)
         /\ impl_children_count(heap, last.c) = Usize(Len(last.before) + 1)
    ELSE /\ ~last.ok
         /\ heap.kids[last.c] = last.before

\* C9: after remove_child(i), if i was less than children_count() the call
\* succeeded and the children are the former ones without the one at position
\* i; otherwise the call failed and the children are the former ones.
C9_RemoveChildSemantics ==
  last.op = "remove_child" =>
    IF UsizeLt(last.idx, Usize(Len(last.before)))
    THEN /\ last.ok
         /\ heap.kids[last.c] = RemoveAt(last.before, last.idx.lo + 1)
         /\ impl_children_count(heap, last.c) = Usize(Len(last.before) - 1)
    ELSE /\ ~last.ok
         /\ heap.kids[last.c] = last.before

\* C10: on every track and stack a handle refers to, range_of_child_at_index(i) fails for every
\* index i that is at least children_count().  (The query is a function of
\* the state: it changes nothing.)
C10_RangeOfChildOutOfRange ==
  \A c \in {o \in LiveOf("Track") \cup LiveOf("Stack") : Usable(o)} :
  \A index \in IndexInputs :
    UsizeLe(impl_children_count(heap, c), index) =>
      ~(IF heap.kind[c] = "Track"
        THEN Track_range_of_child_at_index(heap, c, index)
        ELSE Stack_range_of_child_at_index(heap, c, index)).ok

\* The containers (tracks and stacks) that hold o as a child.
Holders(o) ==
  {c \in ObjIds : IsComposition(heap, c) /\ heap.st[c] = "live" /\ o \in Range(heap.kids[c])}

RangeInParent(o) ==
  IF heap.kind[o] = "Clip" THEN ClipRef_range_in_parent(heap, o)
  ELSE GapRef_range_in_parent(heap, o)

RangeOfChild(P, k) ==
  IF heap.kind[P] = "Track" THEN Track_range_of_child_at_index(heap, P, Usize(k))
  ELSE Stack_range_of_child_at_index(heap, P, Usize(k))

\* C12: in every state, a clip or gap that is the child at position k of a
\* track or stack P has range_in_parent() equal to
\* P.range_of_child_at_index(k), both succeeding; a clip or gap without a
\* parent has range_in_parent() fail with NoParent.
C12_RangeInParent ==
  \A o \in LeafIds :
    (heap.st[o] = "live" /\ heap.kind[o] \in {"Clip", "Gap"}) =>
      /\ \A P \in Holders(o) : \A k \in ValidIndexes(P) :
            ChildAt(P, k) = o =>
              /\ RangeInParent(o).ok
              /\ RangeOfChild(P, k).ok
              /\ RangeInParent(o).range = RangeOfChild(P, k).range
      /\ Holders(o) = {} =>
            /\ ~RangeInParent(o).ok
            /\ RangeInParent(o).err = "NoParent"

\* A clip or gap that is not the first child of its track, so that its range
\* starts after 0 and is the one the track reports for position 1.
C12_Witness ==
  \E o \in LeafIds :
    /\ heap.st[o] = "live" /\ heap.kind[o] \in {"Clip", "Gap"}
    /\ \E P \in Holders(o) :
         /\ heap.kind[P] = "Track"
         /\ 1 \in ValidIndexes(P)
         /\ ChildAt(P, 1) = o
         /\ RangeInParent(o).ok
         /\ RangeInParent(o).range.start_time.value > 0
         /\ RangeInParent(o).range = RangeOfChild(P, 1).range

\* The clips of the subtree of o, and the place of a clip in a sequence.
DescClips(o) == {x \in Subtree(heap, o) : heap.kind[x] = "Clip"}
PosIn(ys, a) == CHOOSE n \in 1..Len(ys) : ys[n] = a

\* The iterator the last find_clips() returned or the last reset() left: at
\* its start, with the clips found.
Returned == [clips |-> last.before, pos |-> 0, src |-> last.c]

C14_CountAndReset ==
  /\ last.op = "count" => last.idx = Usize(Len(last.before))
  /\ last.op = "reset" =>
       Returned \in views /\ Collect(Returned) = last.before

\* The item of track t that spans the time.
SpanIdx(t, time) == CHOOSE j \in Spanning(t, time) : TRUE

StrictlyInside(t, time) ==
  {i \in DOMAIN t : ~IsTransition(t[i]) /\ ItemStart(t, i) < time /\ time < ItemEnd(t, i)}

\* C16: when slice_at_time(t) has just been called with t strictly inside
\* child i, the call succeeded, two adjacent items of child i's kind stand in
\* its place, their durations add up to child i's and the first ends at t;
\* the track has one child more, the same duration, and every other child is
\* unchanged with the range it had.
C16_SliceSplits ==
  (last.op = "slice_at_time" /\ StrictlyInside(last.before, last.time) # {}) =>
    LET b == last.before
        i == CHOOSE j \in StrictlyInside(b, last.time) : TRUE
    IN /\ last.ok
       /\ Len(trk) = Len(b) + 1
       /\ TrackEnd(trk) = TrackEnd(b)
       /\ trk[i].kind = b[i].kind /\ trk[i + 1].kind = b[i].kind
       /\ trk[i].dur + trk[i + 1].dur = b[i].dur
       /\ ItemStart(trk, i) = ItemStart(b, i)
       /\ ItemEnd(trk, i) = last.time
       /\ ItemStart(trk, i + 1) = last.time
       /\ \A j \in 1..(i - 1) :
            trk[j] = b[j] /\ ItemStart(trk, j) = ItemStart(b, j)
       /\ \A j \in (i + 1)..Len(b) :
            trk[j + 1] = b[j] /\ ItemStart(trk, j + 1) = ItemStart(b, j)

\* A clip in the middle of a track has been sliced: an item stands before it
\* and one after it.
C16_Witness ==
  /\ last.op = "slice_at_time" /\ last.ok
  /\ Len(last.before) = 2 /\ Len(trk) = 3
  /\ StrictlyInside(last.before, last.time) = {1}
  /\ last.before[1].kind = "Clip"
  /\ trk[1].kind = "Clip" /\ trk[2].kind = "Clip"

\* C17: when slice_at_time(t) has just been called with t strictly inside no
\* item (on a boundary, outside all items, or on an empty track), the call
\* failed with NothingToSlice and the track is as it was; and when
\* slice_at_time(t) has just succeeded, t is strictly inside no item any more
\* and a second slice_at_time(t) fails with NothingToSlice.
C17_NothingToSlice ==
  /\ (last.op = "slice_at_time" /\ StrictlyInside(last.before, last.time) = {}) =>
       /\ ~last.ok
       /\ last.err = "NothingToSlice"
       /\ trk = last.before
  /\ (last.op = "slice_at_time" /\ last.ok) =>
       /\ StrictlyInside(trk, last.time) = {}
       /\ \A remove_transitions \in BOOLEAN :
            LET r == otio_track_slice_at_time(trk, last.time, remove_transitions)
            IN r.rc # 0 /\ r.err = "NothingToSlice" /\ r.trk = trk

\* slice_at_time has failed at the boundary between two items of a track.
C17_Witness ==
  /\ last.op = "slice_at_time" /\ ~last.ok
  /\ last.err = "NothingToSlice"
  /\ \E i \in DOMAIN last.before :
       i > 1 /\ ~IsTransition(last.before[i]) /\ ItemStart(last.before, i) = last.time
  /\ trk = last.before

\* C18: when insert_at_time(item, t) has just succeeded with t strictly
\* inside child i, child i's part before t, the item and child i's part
\* after t stand in child i's place; every item before child i is unchanged
\* with the range it had, the second part and every item after child i start
\* later by the item's duration, and the track is longer by that duration.
C18_InsertAtTime ==
  (last.op = "insert_at_time" /\ last.ok /\ StrictlyInside(last.before, last.time) # {}) =>
    LET b == last.before
        i == CHOOSE j \in StrictlyInside(b, last.time) : TRUE
        d == last.item.dur
    IN /\ Len(trk) = Len(b) + 2
       /\ TrackEnd(trk) = TrackEnd(b) + d
       /\ trk[i].kind = b[i].kind
       /\ ItemStart(trk, i) = ItemStart(b, i) /\ ItemEnd(trk, i) = last.time
       /\ trk[i + 1] = last.item
       /\ ItemStart(trk, i + 1) = last.time
       /\ trk[i + 2].kind = b[i].kind
       /\ ItemStart(trk, i + 2) = last.time + d
       /\ ItemEnd(trk, i + 2) = ItemEnd(b, i) + d
       /\ \A j \in 1..(i - 1) :
            trk[j] = b[j] /\ ItemStart(trk, j) = ItemStart(b, j)
       /\ \A j \in (i + 1)..Len(b) :
            trk[j + 2] = b[j] /\ ItemStart(trk, j + 2) = ItemStart(b, j) + d

\* A clip has been inserted inside the first of two items: the second one
\* has moved later.
C18_Witness ==
  /\ last.op = "insert_at_time" /\ last.ok
  /\ Len(last.before) = 2
  /\ StrictlyInside(last.before, last.time) = {1}
  /\ Len(trk) = 4
  /\ trk[2] = last.item
  /\ ItemStart(trk, 4) = ItemStart(last.before, 2) + last.item.dur

\* The items of a track that take time (all but the transitions).
Solid(t) == {i \in DOMAIN t : ~IsTransition(t[i])}

\* C19: when overwrite(item, range) has just succeeded, with range = [s, s+d),
\* the item stands in the track from s to s+d and nothing else overlaps the
\* range (an item that lay fully inside it is gone); of an item that
\* overlapped the range partially the part before s and the part after s+d
\* are there, with the item's kind; an item that did not overlap the range is
\* there unchanged with the range it had; and the track holds nothing else
\* but a gap from its former end to s when it ended before s.
C19_Overwrite ==
  (last.op = "overwrite" /\ last.ok) =>
    LET b == last.before
        s == last.time
        e == last.time + last.dur
        placed == {k \in DOMAIN trk :
                     /\ trk[k] = [last.item EXCEPT !.dur = last.dur]
                     /\ ItemStart(trk, k) = s /\ ItemEnd(trk, k) = e}
    IN /\ placed # {}
       /\ \E K \in placed :
            \A k \in Solid(trk) \ {K} : ItemEnd(trk, k) <= s \/ ItemStart(trk, k) >= e
       /\ \A j \in Solid(b) :
            /\ (ItemEnd(b, j) <= s \/ ItemStart(b, j) >= e) =>
                 \E k \in DOMAIN trk : trk[k] = b[j] /\ ItemStart(trk, k) = ItemStart(b, j)
            /\ (ItemStart(b, j) < s /\ s < ItemEnd(b, j)) =>
                 \E k \in DOMAIN trk :
                   /\ trk[k].kind = b[j].kind
                   /\ ItemStart(trk, k) = ItemStart(b, j) /\ ItemEnd(trk, k) = s
            /\ (ItemStart(b, j) < e /\ e < ItemEnd(b, j)) =>
                 \E k \in DOMAIN trk :
                   /\ trk[k].kind = b[j].kind
                   /\ ItemStart(trk, k) = e /\ ItemEnd(trk, k) = ItemEnd(b, j)
       /\ Cardinality(Solid(trk)) =
            1 + Cardinality({j \in Solid(b) : ItemStart(b, j) < s})
              + Cardinality({j \in Solid(b) : ItemEnd(b, j) > e})
              + (IF TrackEnd(b) < s THEN 1 ELSE 0)

\* An overwrite has succeeded on a track of which one item lay fully inside
\* the range and another overlapped its start.
C19_Witness ==
  /\ last.op = "overwrite" /\ last.ok
  /\ \E j \in Solid(last.before) :
       /\ last.time <= ItemStart(last.before, j)
       /\ ItemEnd(last.before, j) <= last.time + last.dur
  /\ \E j \in Solid(last.before) :
       ItemStart(last.before, j) < last.time /\ last.time < ItemEnd(last.before, j)
  /\ \E k \in DOMAIN trk :
       /\ trk[k] = [last.item EXCEPT !.dur = last.dur]
       /\ ItemStart(trk, k) = last.time

\* The transitions of the track before the last overwrite or insert_at_time
\* that sit in the target range [s, s+d] or at the target time, and the
\* transitions of a track.
Intersecting ==
  {i \in DOMAIN last.before :
     /\ IsTransition(last.before[i])
     /\ last.time <= ItemStart(last.before, i)
     /\ ItemStart(last.before, i) <=
          (IF last.op = "overwrite" THEN last.time + last.dur ELSE last.time)}
TransitionsOf(t) == {i \in DOMAIN t : IsTransition(t[i])}

\* C20: when overwrite or insert_at_time has just been called and a
\* transition sat in the target range or at the target time: with
\* remove_transitions = false the call failed with TransitionConflict and
\* the track is as it was; with remove_transitions = true the call succeeded,
\* exactly those transitions are gone and the track is what the same edit
\* makes of the track without them.
C20_TransitionConflict ==
  (last.op \in {"overwrite", "insert_at_time"} /\ Intersecting # {}) =>
    IF ~last.flag
    THEN /\ ~last.ok
         /\ last.err = "TransitionConflict"
         /\ trk = last.before
    ELSE LET rest == Without(last.before, Intersecting, 1)
             r == IF last.op = "overwrite"
                  THEN otio_track_overwrite(rest, last.item, last.time, last.dur, FALSE)
                  ELSE otio_track_insert_at_time(rest, last.item, last.time, FALSE)
         IN /\ last.ok
            /\ r.rc = 0 /\ trk = r.trk
            /\ Cardinality(TransitionsOf(trk)) =
                 Cardinality(TransitionsOf(last.before)) - Cardinality(Intersecting)

\* An overwrite with remove_transitions = true has succeeded over a
\* transition between two items, and the transition is gone.
C20_Witness ==
  /\ last.op = "overwrite" /\ last.ok /\ last.flag
  /\ Intersecting # {}
  /\ \E i \in Intersecting : i > 1 /\ i < Len(last.before)
  /\ TransitionsOf(trk) = {}

\* slip, slide, trim, ripple and roll are methods of the Clip value only, and
\* a Clip value never refers to a clip that is a child of a track or stack:
\* append, insert, overwrite and insert_at_time take the value.
ClipValueIsDetached ==
  \A o \in LeafIds :
    (heap.kind[o] = "Clip" /\ hnd[o] # "none") => Holders(o) = {}

\* Some(variant(o)) as neighbors_of reports a child o.
SomeChild(o) == [some |-> TRUE, kind |-> heap.kind[o], ptr |-> o]

\* C23: on every track a handle refers to, neighbors_of(i, Never) succeeds
\* for i below children_count(), with as left the child at position i - 1
\* (None when i = 0) and as right the child at position i + 1 (None at the last
\* position), whatever their type; it fails for every i that is at least
\* children_count().  (The query is a function of the state: it changes
\* nothing.)
C23_NeighborsOf ==
  \A t \in {o \in LiveOf("Track") : Usable(o)} :
  \A index \in IndexInputs :
    LET r == Track_neighbors_of(heap, t, index, Never)
        n == Len(heap.kids[t])
        i == index.lo
    IN IF UsizeLt(index, impl_children_count(heap, t))
       THEN /\ r.ok
            /\ r.left = (IF i = 0 THEN [some |-> FALSE] ELSE SomeChild(ChildAt(t, i - 1)))
            /\ r.right = (IF i = n - 1 THEN [some |-> FALSE] ELSE SomeChild(ChildAt(t, i + 1)))
       ELSE ~r.ok

\* The same for the indexes that fit in 32 bits without change.
C23_NeighborsOfSmallIndex ==
  \A t \in {o \in LiveOf("Track") : Usable(o)} :
  \A index \in {x \in IndexInputs : x.hi = 0} :
    LET r == Track_neighbors_of(heap, t, index, Never)
        n == Len(heap.kids[t])
        i == index.lo
    IN IF UsizeLt(index, impl_children_count(heap, t))
       THEN /\ r.ok
            /\ r.left = (IF i = 0 THEN [some |-> FALSE] ELSE SomeChild(ChildAt(t, i - 1)))
            /\ r.right = (IF i = n - 1 THEN [some |-> FALSE] ELSE SomeChild(ChildAt(t, i + 1)))
       ELSE ~r.ok

\* C25: a value that was set is reported as set: when set_available_range(r)
\* has just succeeded, available_range() is Some(r), and when
\* set_global_start_time(t) has just succeeded, global_start_time() is
\* Some(t), for every r and t, a zero duration or zero time at rate 1
\* included.
C25_SetValueIsReported ==
  /\ (last.op = "set_available_range" /\ last.ok) =>
       ExternalReference_available_range(attr) = Some(last.arg)
  /\ (last.op = "set_global_start_time" /\ last.ok) =>
       Timeline_global_start_time(attr) = Some(last.arg)

\* The same for the values that are not the sentinel.
C25_SetValueIsReportedUnlessSentinel ==
  /\ (last.op = "set_available_range" /\ last.ok
        /\ ~(last.arg.duration.value = 0 /\ last.arg.duration.rate = 1)) =>
       ExternalReference_available_range(attr) = Some(last.arg)
  /\ (last.op = "set_global_start_time" /\ last.ok
        /\ ~(last.arg.value = 0 /\ last.arg.rate = 1)) =>
       Timeline_global_start_time(attr) = Some(last.arg)

\* C29: when end_time() has just been called on a range, the result is at
\* the start time's rate and its value is the start's value plus the
\* duration's value rescaled to that rate (value * target_rate / rate), which
\* for equal rates is the sum of the two values.
C29_EndTime ==
  last.op = "end_time" =>
    LET start_time == last.arg.start_time
        duration == last.arg.duration
    IN /\ last.res.rate = start_time.rate
       /\ (last.res.value - start_time.value) * duration.rate
            = duration.value * start_time.rate

\* The same for ranges whose two rates are equal.
C29_EndTimeEqualRates ==
  (last.op = "end_time" /\ last.arg.start_time.rate = last.arg.duration.rate) =>
    /\ last.res.rate = last.arg.start_time.rate
    /\ last.res.value = last.arg.start_time.value + last.arg.duration.value

\* C30: the clip's active media reference key is always a key of its media
\* reference map; when set_active_media_reference_key(k) has just been called
\* with a k that is not a key of the map, it has returned an error and the
\* active key is the one before, and with a k of the map it has made k active
\* and the map has the keys it had.
C30_ActiveKeyInMap ==
  /\ attr.clip => attr.active_key \in attr.media_references
  /\ last.op = "set_active_media_reference_key" =>
       /\ attr.media_references = last.before.media_references
       /\ IF last.arg \in last.before.media_references
          THEN last.ok /\ attr.active_key = last.arg
          ELSE ~last.ok /\ last.err # "panic"
                 /\ attr.active_key = last.before.active_key

\* The same, a panic of the call counted as an error.
C30_ActiveKeyInMapOrPanic ==
  /\ attr.clip => attr.active_key \in attr.media_references
  /\ last.op = "set_active_media_reference_key" =>
       /\ attr.media_references = last.before.media_references
       /\ IF last.arg \in last.before.media_references
          THEN last.ok /\ attr.active_key = last.arg
          ELSE ~last.ok /\ attr.active_key = last.before.active_key

\* C26: a children() iterator whose count at creation was N has yielded at
\* most N items and has moved over at most N positions, whatever append,
\* insert, remove_child and clear_children calls were made on the container
\* since; a call of next() on an iterator that is at position N returns None
\* and every other call moves it on by at least one position; and an item it
\* yields is a child of the container, so a position whose child is missing
\* is skipped, not yielded.
C26_ChildIterBounded ==
  /\ \A it \in views :
       it.yielded <= it.index /\ it.index <= it.count
  /\ last.op = "child_next" =>
       \A it \in views :
         /\ last.idx.lo = it.count => (~last.ok /\ it.index = it.count)
         /\ last.idx.lo < it.count => it.index > last.idx.lo
         /\ last.ok =>
              /\ last.child # NoObj
              /\ it.index - 1 \in ValidIndexes(it.ptr)
              /\ ChildAt(it.ptr, it.index - 1) = last.child

\* An iterator borrowed from another handle, created over two children or
\* more, has yielded an item, and next() has then gone over a position left
\* without a child by a removal made since and returned None.
C26_Witness ==
  /\ last.op = "child_next" /\ ~last.ok
  /\ \E it \in views :
       /\ last.idx.lo < it.count
       /\ it.yielded >= 1
       /\ it.count >= 2
       /\ it.src # it.ptr

\* C27: every engine object is freed once its handles and owning roots have
\* been dropped: an object that is still allocated has a handle, or belongs to
\* the tree of an object that has one.
C27_FreedWhenDropped ==
  \A o \in ObjIds :
    heap.st[o] = "live" =>
      \E h \in ObjIds : hnd[h] # "none" /\ heap.st[h] = "live" /\ o \in Subtree(heap, h)

\* The same for the objects whose Rust type has a Drop implementation.
C27_FreedWhenDroppedExceptLeaves ==
  \A o \in ObjIds :
    (heap.st[o] = "live" /\ heap.kind[Top(heap, o)] \notin {"Clip", "Gap"}) =>
      \E h \in ObjIds : hnd[h] # "none" /\ heap.st[h] = "live" /\ o \in Subtree(heap, h)

\* C28: all usable handles into one composition tree are held by one
\* thread: two handles whose objects belong to the same tree are both on the
\* original thread or both on the thread handles were moved to.
C28_OneThreadPerTree ==
  \A h1 \in ObjIds, h2 \in ObjIds :
    (Usable(h1) /\ Usable(h2) /\ Top(heap, h1) = Top(heap, h2)) =>
      ((h1 \in attr.sent) <=> (h2 \in attr.sent))

====
